---- MODULE Spec2Model ----
(***************************************************************************)
(* Model of alphamantis/tas.py: the DashboardRunLog line scanners          *)
(* speed(), power(), cg_speed(), the table builder to_df() and main().     *)
(*                                                                         *)
(* A log file body is a sequence of lines.  A line is a record whose       *)
(* `kind` says which regular expression of the source it matches, and      *)
(* whose other fields are the texts of the named groups of that            *)
(* expression.  Texts of \d+ groups are sequences of decimal digits;       *)
(* texts of \d+\.\d+ groups are a pair of such sequences.                  *)
(*                                                                         *)
(* A generator is modelled by its suspended frame: the file cursor, the    *)
(* locals `result` and `circumference`, and the records it has yielded so  *)
(* far.  Each resumption (next() on the generator) is one action.          *)
(*                                                                         *)
(* A log file is a header, read by the settings property, followed by a    *)
(* body.  `mapping` is what a read of the settings property has returned;  *)
(* `rerun` is a second generator of one extractor, over `file` or over     *)
(* `noisy`, a copy of the body with one line inserted.                     *)
(***************************************************************************)
EXTENDS Integers, Sequences, FiniteSets, TLC

VARIABLES header, file, noisy, mapping, speed, power, cg_speed, rerun,
          cli, table

vars == <<header, file, noisy, mapping, speed, power, cg_speed, rerun,
          cli, table>>

----------------------------------------------------------------------------
(* Bounds *)

\* longest file body that holds lines of a single channel
MaxLen == 5
\* longest file body that mixes the lines of all channels
MaxMixed == 4
\* most announcement/broadcast blocks in a file given to main() and to_df()
MaxBlocks == 3
\* decimal places kept when a text is converted with float()
FloatDigits == 7
\* longest file body into which a line is inserted
MaxNoisy == 4
\* longest file body on which an extractor is run a second time
MaxRerun == 4
\* longest header given to the settings property alone
MaxHeader == 5

----------------------------------------------------------------------------
(* Texts and conversions *)

RECURSIVE Pow10(_)
Pow10(n) == IF n = 0 THEN 1 ELSE 10 * Pow10(n - 1)

\* int(text) of a \d+ group
RECURSIVE ParseInt(_)
ParseInt(ds) ==
    IF Len(ds) = 0 THEN 0
    ELSE 10 * ParseInt(SubSeq(ds, 1, Len(ds) - 1)) + ds[Len(ds)]

\* n / d rounded to the nearest integer (a half rounds up; the texts
\* explored contain no exact halves)
RoundDiv(n, d) == (n \div d) + (IF 2 * (n % d) >= d THEN 1 ELSE 0)

\* the text int.frac as a count of 10^-k units
ToUnits(t, k) ==
    LET n == Len(t.frac)
    IN  IF n <= k
        THEN ParseInt(t.int) * Pow10(k) + ParseInt(t.frac) * Pow10(k - n)
        ELSE RoundDiv(ParseInt(t.int \o t.frac), Pow10(n - k))

\* float(text), kept to FloatDigits decimal places
ParseFloat(t) == ToUnits(t, FloatDigits)

\* datetime.fromtimestamp(float(text)): microseconds since the epoch
FromTimestamp(t) == ToUnits(t, 6)

\* n / d rounded to the nearest integer, a half to the even neighbour
RoundHalfEven(n, d) ==
    LET q == n \div d
        r == n % d
    IN  IF 2 * r > d \/ (2 * r = d /\ q % 2 = 1) THEN q + 1 ELSE q

\* SpeedElapsed with the digits after the sixth decimal cut off
SpeedElapsedTruncated(meas_time) == (meas_time * 15625) \div 16

\* round(meas_time / 1024, 6), in microseconds (1000000/1024 = 15625/16).
\* meas_time / 1024 is exact in binary floating point, and round() rounds
\* the exact value, an exact half to the even neighbour.
SpeedElapsed(meas_time) == RoundHalfEven(meas_time * 15625, 16)

\* round(int(elapsed_time) * 0.0005, 6), in microseconds: the product is
\* within a rounding error of a whole number of microseconds
PowerElapsed(ticks) == ticks * 500

----------------------------------------------------------------------------
(* Lines *)

\* a line accepted by the announcement pattern of speed() and cg_speed()
SpeedAnn(timer, count) == [kind |-> "S_ANN", timer |-> timer, count |-> count]
\* a line accepted by the announcement pattern of power()
PowerAnn(event_count, elapsed_time) ==
    [kind |-> "P_ANN", event_count |-> event_count,
     elapsed_time |-> elapsed_time]
\* lines accepted by the three next_pattern expressions
SpeedLine(ts, v) == [kind |-> "SPEED", timestamp |-> ts, speed |-> v]
CgSpeedLine(ts, v) == [kind |-> "CG_SPEED", timestamp |-> ts, speed |-> v]
PowerLine(ts, v) == [kind |-> "POWER", timestamp |-> ts, power |-> v]
Dec(i, f) == [int |-> i, frac |-> f]

\* the regular expressions of the source, by the shape of line they accept
MatchSpeedPattern(l) == l.kind = "S_ANN"
MatchSpeedNext(l) == l.kind = "SPEED"
MatchPowerPattern(l) == l.kind = "P_ANN"
MatchPowerNext(l) == l.kind = "POWER"
MatchCgSpeedNext(l) == l.kind = "CG_SPEED"

\* f.readline() with the cursor after line p: the index of the line read,
\* or 0 at end of file
ReadLine(f, p) == IF p < Len(f) THEN p + 1 ELSE 0

----------------------------------------------------------------------------
(* Settings *)

\* header lines, by the expression of the settings property they match:
\* '^#\tTime and Date', '^#\tRider and Device Data', '^###', the
\* 'Start Date|Start Time|Run Number' line, the '[A-Z_]+' line with and
\* without param1 and param2, and a '#' line that matches none of them
TimeMarker == [kind |-> "H_TIME"]
RiderMarker == [kind |-> "H_RIDER"]
EndMarker == [kind |-> "H_END"]
DateLine(label, value) == [kind |-> "H_DATE", label |-> label, value |-> value]
DeviceLine(label, value, param1, param2) ==
    [kind |-> "H_DEVICE", label |-> label, value |-> value,
     param1 |-> param1, param2 |-> param2]
DeviceScalar(label, value) ==
    [kind |-> "H_SCALAR", label |-> label, value |-> value]
CommentLine == [kind |-> "H_OTHER"]

\* the text of a \d+ field of the header
Num(ds) == [int |-> ds]

\* str.lower() of the labels that occur
Lower(label) ==
    CASE label = "Start Date" -> "start date"
      [] label = "Run Number" -> "run number"
      [] label = "SPEED" -> "speed"
      [] label = "POWER" -> "power"
      [] label = "RIDER" -> "rider"
      [] OTHER -> label

\* data[key] = value
Put(data, key, value) ==
    [k \in DOMAIN data \cup {key} |-> IF k = key THEN value ELSE data[k]]

\* the first and the third loop of settings: the cursor after the first
\* line after p that matches the marker, or the end of the file
RECURSIVE SeekMarker(_, _, _)
SeekMarker(ls, p, marker) ==
    LET i == ReadLine(ls, p)
    IN  IF i = 0 THEN p
        ELSE IF ls[i].kind = marker.kind THEN i
        ELSE SeekMarker(ls, i, marker)

\* the second loop of settings: the labelled lines up to '###'
RECURSIVE ReadTimeAndDate(_, _, _)
ReadTimeAndDate(ls, p, data) ==
    LET i == ReadLine(ls, p)
    IN  IF i = 0 THEN [pos |-> p, data |-> data]
        ELSE IF ls[i].kind = EndMarker.kind
             THEN [pos |-> i, data |-> data]
        ELSE IF ls[i].kind # "H_DATE" THEN ReadTimeAndDate(ls, i, data)
        ELSE ReadTimeAndDate(ls, i,
                 Put(data, Lower(ls[i].label), [value |-> ls[i].value]))

\* the fourth loop of settings: a line with param1 and param2 is stored as
\* a 3-tuple, a line without them as its value
RECURSIVE ReadRiderAndDevice(_, _, _)
ReadRiderAndDevice(ls, p, data) ==
    LET i == ReadLine(ls, p)
    IN  IF i = 0 THEN data
        ELSE IF ls[i].kind = EndMarker.kind THEN data
        ELSE IF ls[i].kind = "H_DEVICE"
             THEN ReadRiderAndDevice(ls, i,
                      Put(data, Lower(ls[i].label),
                          [value |-> ls[i].value, param1 |-> ls[i].param1,
                           param2 |-> ls[i].param2]))
        ELSE IF ls[i].kind = "H_SCALAR"
             THEN ReadRiderAndDevice(ls, i,
                      Put(data, Lower(ls[i].label), [value |-> ls[i].value]))
        ELSE ReadRiderAndDevice(ls, i, data)

\* the settings property on a file of the lines ls (header and body; a
\* body line begins with no '#' and matches none of the expressions)
ReadSettings(ls) ==
    LET time == SeekMarker(ls, 0, TimeMarker)
        date == ReadTimeAndDate(ls, time, << >>)
        rider == SeekMarker(ls, date.pos, RiderMarker)
    IN  ReadRiderAndDevice(ls, rider, date.data)

\* settings[key][0].split('_') unpacked into two names, and the conversion
\* of settings[key][1]: the exception raised, or "none".  A value text is
\* the sequence of its parts between '_'; of a value that is not a tuple,
\* [0] is the first character, which holds no '_'.
Lookup(settings, key, integer) ==
    IF key \notin DOMAIN settings THEN "KeyError"
    ELSE IF "param1" \notin DOMAIN settings[key] THEN "ValueError"
    ELSE IF Len(settings[key].value) # 2 THEN "ValueError"
    ELSE IF integer /\ "frac" \in DOMAIN settings[key].param1
         THEN "ValueError"
    ELSE "none"

\* float(settings['speed'][1])
circumference(settings) ==
    LET t == settings["speed"].param1
    IN  ParseFloat(IF "frac" \in DOMAIN t THEN t ELSE Dec(t.int, << >>))

----------------------------------------------------------------------------
(* Records *)

\* `ann` and `bc` are history fields: the file positions of the
\* announcement line and of the broadcast line the record was built from.
SpeedSensorRecord(timestamp, value, elapsed_time, count, circ, ann, bc) ==
    [type |-> "SpeedSensorRecord", timestamp |-> timestamp, value |-> value,
     elapsed_time |-> elapsed_time, count |-> count, circumference |-> circ,
     ann |-> ann, bc |-> bc]

PowerSensorRecord(timestamp, value, event_count, elapsed_time, ann, bc) ==
    [type |-> "PowerSensorRecord", timestamp |-> timestamp, value |-> value,
     event_count |-> event_count, elapsed_time |-> elapsed_time,
     ann |-> ann, bc |-> bc]

\* a local variable that has not been assigned
Unbound == [type |-> "unbound"]

\* the value None
None == [type |-> "None"]

----------------------------------------------------------------------------
(* Generators *)

\* a generator that has not been resumed yet; the local `circumference`
\* is 0 until line 84 (188) assigns it
NewGenerator == [st |-> "suspended", pos |-> 0, result |-> Unbound,
                 out |-> <<>>, err |-> "none", circumference |-> 0]

\* Yield with the record put in front of the records yielded before
YieldPrepend(g, p, result) ==
    IF result.type = "unbound"
    THEN [g EXCEPT !.st = "error", !.err = "UnboundLocalError", !.pos = p]
    ELSE [g EXCEPT !.pos = p, !.result = result,
                   !.out = <<result>> \o g.out]

\* the yield statement: yielding an unassigned local raises
Yield(g, p, result) ==
    IF result.type = "unbound"
    THEN [g EXCEPT !.st = "error", !.err = "UnboundLocalError", !.pos = p]
    ELSE [g EXCEPT !.pos = p, !.result = result, !.out = Append(g.out, result)]

\* speed(), "find first entry": the index of the first line after p that
\* matches pattern with a nonzero timer, 0 when the file ends first
RECURSIVE SpeedFindFirst(_, _)
SpeedFindFirst(f, p) ==
    LET i == ReadLine(f, p)
    IN  IF i = 0 THEN 0
        ELSE IF ~MatchSpeedPattern(f[i]) THEN SpeedFindFirst(f, i)
        ELSE IF ParseInt(f[i].timer) = 0 THEN SpeedFindFirst(f, i)
        ELSE i

\* SpeedFindData giving up at the first line that does not match
SpeedFindDataGivesUp(f, p) ==
    LET i == ReadLine(f, p)
    IN  IF i = 0 THEN 0
        ELSE IF ~MatchSpeedNext(f[i]) THEN 0
        ELSE i

\* speed(), "find data entry": the index of the first line after p that
\* matches next_pattern, 0 when the file ends first
RECURSIVE SpeedFindData(_, _)
SpeedFindData(f, p) ==
    LET i == ReadLine(f, p)
    IN  IF i = 0 THEN 0
        ELSE IF ~MatchSpeedNext(f[i]) THEN SpeedFindData(f, i)
        ELSE i

\* speed(), "seek next copy": the cursor after reading up to and including
\* the first line after p that matches pattern, or up to end of file
RECURSIVE SpeedSeekNextCopy(_, _)
SpeedSeekNextCopy(f, p) ==
    LET i == ReadLine(f, p)
    IN  IF i = 0 THEN p
        ELSE IF MatchSpeedPattern(f[i]) THEN i
        ELSE SpeedSeekNextCopy(f, i)

\* SpeedResume with the end of the file leading to the yield statement
SpeedResumeYieldAtEof(f, g) ==
    LET first == SpeedFindFirst(f, g.pos)
    IN  IF first = 0
        THEN Yield(g, Len(f), g.result)
        ELSE LET data == SpeedFindData(f, first)
                 result == IF data = 0 THEN g.result
                           ELSE SpeedSensorRecord(
                                    FromTimestamp(f[data].timestamp),
                                    ParseFloat(f[data].speed),
                                    SpeedElapsed(ParseInt(f[first].timer)),
                                    ParseInt(f[first].count),
                                    g.circumference, first, data)
                 p == IF data = 0 THEN Len(f) ELSE SpeedSeekNextCopy(f, data)
             IN  Yield(g, p, result)

\* one resumption of speed(): from the top of the outer loop to the next
\* yield, or to the end of the generator
SpeedResume(f, g) ==
    LET first == SpeedFindFirst(f, g.pos)
    IN  IF first = 0
        THEN [g EXCEPT !.st = "done", !.pos = Len(f)]
        ELSE LET rev_count == ParseInt(f[first].count)
                 meas_time == ParseInt(f[first].timer)
                 data == SpeedFindData(f, first)
                 result == IF data = 0 THEN g.result
                           ELSE SpeedSensorRecord(
                                    FromTimestamp(f[data].timestamp),
                                    ParseFloat(f[data].speed),
                                    SpeedElapsed(meas_time),
                                    rev_count, g.circumference, first, data)
                 p == IF data = 0 THEN Len(f) ELSE SpeedSeekNextCopy(f, data)
             IN  Yield(g, p, result)

\* power(), "find first entry": the index of the first line after p that
\* matches pattern and whose event_count text is not '0'
RECURSIVE PowerFindFirst(_, _)
PowerFindFirst(f, p) ==
    LET i == ReadLine(f, p)
    IN  IF i = 0 THEN 0
        ELSE IF ~MatchPowerPattern(f[i]) \/ f[i].event_count = <<0>>
             THEN PowerFindFirst(f, i)
        ELSE i

\* power(), "find power entry"
RECURSIVE PowerFindData(_, _)
PowerFindData(f, p) ==
    LET i == ReadLine(f, p)
    IN  IF i = 0 THEN 0
        ELSE IF ~MatchPowerNext(f[i]) THEN PowerFindData(f, i)
        ELSE i

\* PowerSeekNextCopy with the cursor put back to the start of the file when
\* the file ends
RECURSIVE PowerSeekNextCopyRewind(_, _)
PowerSeekNextCopyRewind(f, p) ==
    LET i == ReadLine(f, p)
    IN  IF i = 0 THEN 0
        ELSE IF MatchPowerPattern(f[i]) THEN i
        ELSE PowerSeekNextCopyRewind(f, i)

\* power(), "skip to next copy entry"
RECURSIVE PowerSeekNextCopy(_, _)
PowerSeekNextCopy(f, p) ==
    LET i == ReadLine(f, p)
    IN  IF i = 0 THEN p
        ELSE IF MatchPowerPattern(f[i]) THEN i
        ELSE PowerSeekNextCopy(f, i)

\* one resumption of power()
PowerResume(f, g) ==
    LET first == PowerFindFirst(f, g.pos)
    IN  IF first = 0
        THEN [g EXCEPT !.st = "done", !.pos = Len(f)]
        ELSE LET event_count == ParseInt(f[first].event_count)
                 elapsed_time == PowerElapsed(ParseInt(f[first].elapsed_time))
                 data == PowerFindData(f, first)
                 result == IF data = 0 THEN g.result
                           ELSE PowerSensorRecord(
                                    FromTimestamp(f[data].timestamp),
                                    ParseFloat(f[data].power),
                                    event_count, elapsed_time, first, data)
                 p == IF data = 0 THEN Len(f) ELSE PowerSeekNextCopy(f, data)
             IN  Yield(g, p, result)

\* cg_speed(), "find first entry"
RECURSIVE CgSpeedFindFirst(_, _)
CgSpeedFindFirst(f, p) ==
    LET i == ReadLine(f, p)
    IN  IF i = 0 THEN 0
        ELSE IF ~MatchSpeedPattern(f[i]) THEN CgSpeedFindFirst(f, i)
        ELSE IF ParseInt(f[i].timer) = 0 THEN CgSpeedFindFirst(f, i)
        ELSE i

\* cg_speed(), "find latest data entry" for the announcement at line first:
\* the cursor and the value of result when the inner loop is left
RECURSIVE CgSpeedFindLatest(_, _, _, _, _)
CgSpeedFindLatest(f, p, first, result, circ) ==
    LET i == ReadLine(f, p)
    IN  IF i = 0 THEN [pos |-> p, result |-> result]
        ELSE IF result.type # "None" /\ MatchSpeedPattern(f[i])
             THEN [pos |-> i, result |-> result]
        ELSE IF ~MatchCgSpeedNext(f[i])
             THEN CgSpeedFindLatest(f, i, first, result, circ)
        ELSE CgSpeedFindLatest(f, i, first,
                 SpeedSensorRecord(FromTimestamp(f[i].timestamp),
                                   ParseFloat(f[i].speed),
                                   SpeedElapsed(ParseInt(f[first].timer)),
                                   ParseInt(f[first].count),
                                   circ, first, i), circ)

\* one resumption of cg_speed()
CgSpeedResume(f, g) ==
    LET first == CgSpeedFindFirst(f, g.pos)
    IN  IF first = 0
        THEN [g EXCEPT !.st = "done", !.pos = Len(f)]
        ELSE LET latest == CgSpeedFindLatest(f, first, first, None,
                                               g.circumference)
             IN  IF latest.result.type = "None"
                 THEN [g EXCEPT !.st = "done", !.pos = latest.pos]
                 ELSE Yield(g, latest.pos, latest.result)

\* Raise with the exception swallowed: the generator just ends
RaiseSwallowed(g, err) == [g EXCEPT !.st = "done"]

\* an exception that leaves the generator
Raise(g, err) == [g EXCEPT !.st = "error", !.err = err]

\* lines 82-84 (186-188) in a generator of speed() or cg_speed() on the
\* file with header h and body f: an exception, or `circumference` assigned
SpeedSettings(h, f, g) ==
    LET settings == ReadSettings(h \o f)
        err == Lookup(settings, "speed", FALSE)
    IN  IF err # "none" THEN Raise(g, err)
        ELSE [g EXCEPT !.circumference = circumference(settings)]

\* lines 132-134 in a generator of power()
PowerSettings(h, f, g) ==
    LET err == Lookup(ReadSettings(h \o f), "power", TRUE)
    IN  IF err # "none" THEN Raise(g, err) ELSE g

\* next() on a generator of speed().  The first resumption (nothing
\* yielded yet) runs lines 82-84 before the file is opened for scanning;
\* the header lines, which begin with '#' and match no pattern, are read
\* and skipped before the body, so the cursor counts body lines.
SpeedNext(h, f, g) ==
    LET started == IF g.out = << >> THEN SpeedSettings(h, f, g) ELSE g
    IN  IF started.st = "error" THEN started ELSE SpeedResume(f, started)

\* next() on a generator of power()
PowerNext(h, f, g) ==
    LET started == IF g.out = << >> THEN PowerSettings(h, f, g) ELSE g
    IN  IF started.st = "error" THEN started ELSE PowerResume(f, started)

\* next() on a generator of cg_speed()
CgSpeedNext(h, f, g) ==
    LET started == IF g.out = << >> THEN SpeedSettings(h, f, g) ELSE g
    IN  IF started.st = "error" THEN started ELSE CgSpeedResume(f, started)

----------------------------------------------------------------------------
(* main() and to_df() *)

\* list(self.speed()): the generator resumed until it ends or raises
RECURSIVE ListSpeed(_, _, _)
ListSpeed(h, f, g) ==
    IF g.st # "suspended" THEN g ELSE ListSpeed(h, f, SpeedNext(h, f, g))

RECURSIVE ListPower(_, _, _)
ListPower(h, f, g) ==
    IF g.st # "suspended" THEN g ELSE ListPower(h, f, PowerNext(h, f, g))

RECURSIVE ListCgSpeed(_, _, _)
ListCgSpeed(h, f, g) ==
    IF g.st # "suspended" THEN g ELSE ListCgSpeed(h, f, CgSpeedNext(h, f, g))

\* Insert with r put in front of the records that have its timestamp
RECURSIVE InsertUnstable(_, _)
InsertUnstable(r, s) ==
    IF Len(s) = 0 THEN <<r>>
    ELSE IF s[Len(s)].timestamp < r.timestamp THEN Append(s, r)
    ELSE Append(InsertUnstable(r, SubSeq(s, 1, Len(s) - 1)), s[Len(s)])

\* r put into the sorted sequence s behind every record whose timestamp
\* is not greater
RECURSIVE Insert(_, _)
Insert(r, s) ==
    IF Len(s) = 0 THEN <<r>>
    ELSE IF s[Len(s)].timestamp <= r.timestamp THEN Append(s, r)
    ELSE Append(Insert(r, SubSeq(s, 1, Len(s) - 1)), s[Len(s)])

\* sorted(records, key=lambda x: x.timestamp)
RECURSIVE SortedByTimestamp(_)
SortedByTimestamp(records) ==
    IF Len(records) = 0 THEN <<>>
    ELSE Insert(records[Len(records)],
                SortedByTimestamp(SubSeq(records, 1, Len(records) - 1)))

\* the digits of n, most significant first, padded with zeros to width w
RECURSIVE Digits(_, _)
Digits(n, w) ==
    IF w = 0 THEN <<>> ELSE Append(Digits(n \div 10, w - 1), n % 10)

\* x.timestamp.strftime("%F %T.%f"): seconds and a six digit fraction
Strftime(t) == [sec |-> t \div 1000000, frac |-> Digits(t % 1000000, 6)]

\* pd.to_datetime of such a text, in microseconds
ToDatetime(txt) == txt.sec * 1000000 + ParseInt(txt.frac)

\* f'{x:.6f}' of a float kept to FloatDigits places, in millionths
Format6(x) == RoundDiv(x, Pow10(FloatDigits - 6))

\* one line of the csv list of main()
CsvRow(x) ==
    [timestamp |-> Strftime(x.timestamp),
     sensor |-> IF x.type = "PowerSensorRecord" THEN "power" ELSE "speed",
     value |-> Format6(x.value),
     elapsed_time |-> x.elapsed_time]

\* the settings property before it is read
NotRead == [st |-> "idle", data |-> << >>]

\* no second generator has been created
NoRerun == [ch |-> "none", g |-> NewGenerator, after |-> 0]

\* what main() and to_df() have produced before they are called
Idle == [st |-> "idle", input |-> <<>>, records |-> <<>>, rows |-> <<>>]

\* main(): `input` is records before line 254, `records` after it, `rows`
\* the data rows printed; an exception from a generator ends main() before
\* anything is printed
MainRun(h, f) ==
    LET s == ListSpeed(h, f, NewGenerator)
        p == ListPower(h, f, NewGenerator)
    IN  IF s.st = "error" \/ p.st = "error"
        THEN [Idle EXCEPT !.st = "error"]
        ELSE LET records == SortedByTimestamp(s.out \o p.out)
             IN  [st |-> "ok", input |-> s.out \o p.out, records |-> records,
                  rows |-> [i \in 1..Len(records) |-> CsvRow(records[i])]]

\* one row of the frames v, vcg and w of to_df()
DfRow(x, sensor) ==
    [index |-> ToDatetime(Strftime(x.timestamp)), sensor |-> sensor,
     value |-> x.value, elapsed_time |-> x.elapsed_time]

\* to_df(): the rows of pd.concat([v, vcg, w])
ToDfRun(h, f) ==
    LET s == ListSpeed(h, f, NewGenerator)
        c == ListCgSpeed(h, f, NewGenerator)
        p == ListPower(h, f, NewGenerator)
    IN  IF s.st = "error" \/ c.st = "error" \/ p.st = "error"
        THEN [Idle EXCEPT !.st = "error"]
        ELSE [st |-> "ok", input |-> s.out \o c.out \o p.out,
              records |-> s.out \o c.out \o p.out,
              rows |-> [i \in 1..Len(s.out) |-> DfRow(s.out[i], "speed")]
                       \o [i \in 1..Len(c.out) |-> DfRow(c.out[i], "cg_speed")]
                       \o [i \in 1..Len(p.out) |-> DfRow(p.out[i], "power")]]

----------------------------------------------------------------------------
(* Files *)

\* a header with both sections, naming the speed and the power sensor
GoodHeader ==
    << TimeMarker, DateLine("Start Date", <<"2020">>), EndMarker,
       RiderMarker,
       DeviceLine("SPEED", <<"BSPD", "123">>, Dec(<<2>>, <<1, 0, 5>>),
                  Num(<<0>>)),
       DeviceLine("POWER", <<"BPWR", "456">>, Num(<<1, 0>>), Num(<<0>>)),
       EndMarker >>

\* texts that occur in the files explored; as timestamps they are a tenth
\* of a microsecond apart, TA and T1 falling in the same microsecond
TA == Dec(<<1>>, <<0, 0, 0, 0, 0, 0, 1>>)
T1 == Dec(<<1>>, <<0, 0, 0, 0, 0, 0, 4>>)
T2 == Dec(<<1>>, <<0, 0, 0, 0, 0, 0, 6>>)
V1 == Dec(<<9>>, <<8, 7, 6, 5, 0, 0>>)
V2 == Dec(<<9>>, <<5>>)

\* announcements with timer 0, with a timer whose 1024th falls halfway
\* between two microseconds (8), and with one that is rounded up (1027)
SpeedAnnLines ==
    { SpeedAnn(<<0>>, <<5, 0>>),
      SpeedAnn(<<8>>, <<5, 0>>),
      SpeedAnn(<<1, 0, 2, 7>>, <<5, 1>>) }

\* announcements with event_count '0', '00' and '7', and one with
\* event_count '7' whose elapsed_time field is '0'
PowerAnnLines ==
    { PowerAnn(<<0>>, <<2, 0, 0, 0>>),
      PowerAnn(<<0, 0>>, <<2, 0, 0, 0>>),
      PowerAnn(<<7>>, <<2, 0, 0, 0>>),
      PowerAnn(<<7>>, <<0>>) }

\* the lines of one channel
SpeedChannel == SpeedAnnLines \cup { SpeedLine(T1, V1), SpeedLine(T2, V2) }
CgSpeedChannel ==
    SpeedAnnLines \cup { CgSpeedLine(T1, V1), CgSpeedLine(T2, V2) }
PowerChannel == PowerAnnLines \cup { PowerLine(T1, V1) }

\* one announcement line and one broadcast line of every channel
MixedLines ==
    { SpeedAnn(<<1, 0, 2, 4>>, <<5, 0>>), SpeedLine(T1, V1),
      CgSpeedLine(T2, V2),
      PowerAnn(<<7>>, <<2, 0, 0, 0>>), PowerLine(T1, V2) }

SeqsUpTo(S, n) == UNION { [1..k -> S] : k \in 0..n }

\* every file body of at most MaxLen lines of one channel, and every file
\* body of at most MaxMixed lines that mixes the channels
Files ==
    SeqsUpTo(SpeedChannel, MaxLen) \cup SeqsUpTo(CgSpeedChannel, MaxLen)
    \cup SeqsUpTo(PowerChannel, MaxLen) \cup SeqsUpTo(MixedLines, MaxMixed)

\* an announcement, the value broadcast for it, and the announcement's
\* repeated copy
Blocks ==
    LET sa == SpeedAnn(<<2, 0, 4, 8>>, <<5, 0>>)
        pa == PowerAnn(<<7>>, <<2, 0, 0, 0>>)
    IN  { <<sa, SpeedLine(TA, V1), sa>>, <<sa, SpeedLine(T1, V2), sa>>,
          <<sa, SpeedLine(T2, V1), sa>>,
          <<sa, CgSpeedLine(T1, V1), sa>>, <<sa, CgSpeedLine(T2, V2), sa>>,
          <<pa, PowerLine(TA, V2), pa>>, <<pa, PowerLine(T1, V1), pa>>,
          <<pa, PowerLine(T2, V2), pa>>,
          <<sa>> }

RECURSIVE Concat(_)
Concat(bs) == IF Len(bs) = 0 THEN <<>> ELSE Head(bs) \o Concat(Tail(bs))

\* every file body made of at most MaxBlocks blocks
BlockFiles ==
    { Concat(bs) : bs \in UNION { [1..n -> Blocks] : n \in 0..MaxBlocks } }

----------------------------------------------------------------------------
(* Specifications *)

Channels == {"speed", "power", "cg_speed"}

\* the generator of a channel
Gen(ch) == IF ch = "speed" THEN speed
           ELSE IF ch = "power" THEN power ELSE cg_speed

\* line l is an announcement line, a broadcast line of channel ch
IsAnn(ch, l) ==
    IF ch = "power" THEN MatchPowerPattern(l) ELSE MatchSpeedPattern(l)
IsBc(ch, l) ==
    IF ch = "speed" THEN MatchSpeedNext(l)
    ELSE IF ch = "power" THEN MatchPowerNext(l) ELSE MatchCgSpeedNext(l)

\* the three generators of one DashboardRunLog, resumed in any order
Init ==
    /\ header = GoodHeader
    /\ file \in Files
    /\ noisy = << >>
    /\ mapping = NotRead
    /\ rerun = NoRerun
    /\ speed = NewGenerator
    /\ power = NewGenerator
    /\ cg_speed = NewGenerator
    /\ cli = Idle
    /\ table = Idle

\* NextSpeed reading through a file handle shared with power()
NextSpeedSharedHandle ==
    /\ speed.st = "suspended"
    /\ speed' = SpeedNext(header, file,
                     [speed EXCEPT !.pos = IF power.pos > speed.pos
                                           THEN power.pos ELSE speed.pos])
    /\ UNCHANGED <<header, file, noisy, mapping, power, cg_speed,
                   rerun, cli, table>>

\* next() on the generator of speed()
NextSpeed ==
    /\ speed.st = "suspended"
    /\ speed' = SpeedNext(header, file, speed)
    /\ UNCHANGED <<header, file, noisy, mapping, power, cg_speed,
                 rerun, cli, table>>

\* next() on the generator of power()
NextPower ==
    /\ power.st = "suspended"
    /\ power' = PowerNext(header, file, power)
    /\ UNCHANGED <<header, file, noisy, mapping, speed, cg_speed,
                 rerun, cli, table>>

\* next() on the generator of cg_speed()
NextCgSpeed ==
    /\ cg_speed.st = "suspended"
    /\ cg_speed' = CgSpeedNext(header, file, cg_speed)
    /\ UNCHANGED <<header, file, noisy, mapping, speed, power,
                 rerun, cli, table>>

Next == NextSpeed \/ NextPower \/ NextCgSpeed

Spec == Init /\ [][Next]_vars

\* the three generators on a log file that mixes the channels, created
\* together and resumed in any order
InitMixed ==
    /\ header = GoodHeader
    /\ file \in SeqsUpTo(MixedLines, MaxMixed)
    /\ noisy = << >>
    /\ mapping = NotRead
    /\ rerun = NoRerun
    /\ speed = NewGenerator
    /\ power = NewGenerator
    /\ cg_speed = NewGenerator
    /\ cli = Idle
    /\ table = Idle

SpecMixed == InitMixed /\ [][Next]_vars

\* main() and to_df() called on a log file
InitCli ==
    /\ header = GoodHeader
    /\ file \in BlockFiles
    /\ noisy = << >>
    /\ mapping = NotRead
    /\ rerun = NoRerun
    /\ speed = NewGenerator
    /\ power = NewGenerator
    /\ cg_speed = NewGenerator
    /\ cli = Idle
    /\ table = Idle

Main ==
    /\ cli.st = "idle"
    /\ cli' = MainRun(header, file)
    /\ UNCHANGED <<header, file, noisy, mapping, speed, power, cg_speed,
                 rerun, table>>

ToDf ==
    /\ table.st = "idle"
    /\ table' = ToDfRun(header, file)
    /\ UNCHANGED <<header, file, noisy, mapping, speed, power, cg_speed,
                 rerun, cli>>

NextCli == Main \/ ToDf

SpecCli == InitCli /\ [][NextCli]_vars

\* the header without its SPEED line
NoSpeedHeader == SelectSeq(GoodHeader, LAMBDA l : l # GoodHeader[5])

\* an extractor called a second time on the same DashboardRunLog, at any
\* moment of the first generator's life.  `rerun.g` is the frame of the
\* second generator ("absent" until the call), `rerun.after` a history
\* field: the cursor of the first generator at the moment of the call.
InitRerun ==
    /\ header \in {GoodHeader, NoSpeedHeader}
    /\ \E ch \in Channels :
           /\ rerun = [ch |-> ch, g |-> [NewGenerator EXCEPT !.st = "absent"],
                       after |-> 0]
           /\ file \in SeqsUpTo(IF ch = "speed" THEN SpeedChannel
                                 ELSE IF ch = "power" THEN PowerChannel
                                 ELSE CgSpeedChannel, MaxRerun)
    /\ noisy = << >>
    /\ mapping = NotRead
    /\ speed = NewGenerator
    /\ power = NewGenerator
    /\ cg_speed = NewGenerator
    /\ cli = Idle
    /\ table = Idle

\* next() on the first generator of the channel
FirstNext ==
    \/ rerun.ch = "speed" /\ NextSpeed
    \/ rerun.ch = "power" /\ NextPower
    \/ rerun.ch = "cg_speed" /\ NextCgSpeed

\* the second call with the file handle of the first generator
RerunStartSharedHandle ==
    /\ rerun.g.st = "absent"
    /\ rerun' = [rerun EXCEPT
                     !.g = [NewGenerator EXCEPT !.pos = Gen(rerun.ch).pos],
                     !.after = Gen(rerun.ch).pos]
    /\ UNCHANGED <<header, file, noisy, mapping, speed, power, cg_speed,
                   cli, table>>

\* the second call log.speed(), log.power() or log.cg_speed(): a new
\* generator whose frame shares nothing with the first (self holds only
\* the file name; the generator opens the file itself)
RerunStart ==
    /\ rerun.g.st = "absent"
    /\ rerun' = [rerun EXCEPT !.g = NewGenerator,
                              !.after = Gen(rerun.ch).pos]
    /\ UNCHANGED <<header, file, noisy, mapping, speed, power, cg_speed,
                   cli, table>>

\* next() on the second generator
RerunNext ==
    /\ rerun.g.st = "suspended"
    /\ rerun.ch \in Channels
    /\ rerun' = [rerun EXCEPT !.g =
                     IF rerun.ch = "speed"
                     THEN SpeedNext(header, file, rerun.g)
                     ELSE IF rerun.ch = "power"
                     THEN PowerNext(header, file, rerun.g)
                     ELSE CgSpeedNext(header, file, rerun.g)]
    /\ UNCHANGED <<header, file, noisy, mapping, speed, power, cg_speed,
                   cli, table>>

NextRerun == FirstNext \/ RerunStart \/ RerunNext

SpecRerun == InitRerun /\ [][NextRerun]_vars

\* headers without the POWER line, without the 'Rider and Device Data'
\* marker, and with a SPEED line that carries no param1 and param2
NoPowerHeader == SelectSeq(GoodHeader, LAMBDA l : l # GoodHeader[6])
NoRiderHeader == SelectSeq(GoodHeader, LAMBDA l : l # RiderMarker)
ScalarSpeedHeader ==
    [GoodHeader EXCEPT ![5] = DeviceScalar("SPEED", <<"BSPD", "123">>)]

KeyHeaders ==
    { GoodHeader, NoSpeedHeader, NoPowerHeader, NoRiderHeader,
      ScalarSpeedHeader }

\* the generators and main() on log files whose header may lack the line of
\* a sensor
InitKeys ==
    /\ header \in KeyHeaders
    /\ file \in SeqsUpTo(MixedLines, MaxMixed)
    /\ noisy = << >>
    /\ mapping = NotRead
    /\ rerun = NoRerun
    /\ speed = NewGenerator
    /\ power = NewGenerator
    /\ cg_speed = NewGenerator
    /\ cli = Idle
    /\ table = Idle

NextKeys == NextSpeed \/ NextPower \/ NextCgSpeed \/ Main

SpecKeys == InitKeys /\ [][NextKeys]_vars

\* one header line of every shape
HeaderLines ==
    { TimeMarker, RiderMarker, EndMarker, CommentLine,
      DateLine("Start Date", <<"2020">>),
      DeviceLine("SPEED", <<"BSPD", "123">>, Dec(<<2>>, <<1, 0, 5>>),
                 Num(<<0>>)),
      DeviceScalar("RIDER", <<"bob">>) }

\* the settings property read on a file with any header of at most
\* MaxHeader lines, followed by an empty body or by one body line
InitSettings ==
    /\ header \in SeqsUpTo(HeaderLines, MaxHeader)
    /\ file \in SeqsUpTo({SpeedLine(T1, V1)}, 1)
    /\ noisy = << >>
    /\ mapping = NotRead
    /\ rerun = NoRerun
    /\ speed = NewGenerator
    /\ power = NewGenerator
    /\ cg_speed = NewGenerator
    /\ cli = Idle
    /\ table = Idle

\* the header holds a line that matches the marker
HasMarker(h, marker) == \E i \in 1..Len(h) : h[i].kind = marker.kind

\* GetSettings raising when a section marker is not in the file
GetSettingsStrict ==
    /\ mapping.st = "idle"
    /\ mapping' =
           IF HasMarker(header, TimeMarker) /\ HasMarker(header, RiderMarker)
           THEN [st |-> "returned", data |-> ReadSettings(header \o file)]
           ELSE [st |-> "error", data |-> << >>]
    /\ UNCHANGED <<header, file, noisy, speed, power, cg_speed,
                   rerun, cli, table>>

\* log.settings: the property has no raise statement and returns data
GetSettings ==
    /\ mapping.st = "idle"
    /\ mapping' = [st |-> "returned", data |-> ReadSettings(header \o file)]
    /\ UNCHANGED <<header, file, noisy, speed, power, cg_speed,
                   rerun, cli, table>>

NextSettings == GetSettings

SpecSettings == InitSettings /\ [][NextSettings]_vars

\* the lines of a channel
ChannelLines(ch) ==
    IF ch = "speed" THEN SpeedChannel
    ELSE IF ch = "power" THEN PowerChannel ELSE CgSpeedChannel

\* announcement and broadcast lines that match neither the announcement
\* pattern nor the broadcast pattern of ch
Noise(ch) ==
    { l \in MixedLines \ {PowerLine(T1, V2)} : ~IsAnn(ch, l) /\ ~IsBc(ch, l) }

\* f with line l inserted after its first k lines
InsertAt(f, k, l) == SubSeq(f, 1, k) \o <<l>> \o SubSeq(f, k + 1, Len(f))

\* an extractor run on a file and on the same file with one line inserted
\* that matches none of the extractor's patterns: `noisy` is the body with
\* the line inserted, `rerun.g` the generator over it, `rerun.after` the
\* number of lines before the inserted one
InitInsert ==
    /\ header = GoodHeader
    /\ \E ch \in Channels :
           /\ file \in SeqsUpTo(ChannelLines(ch), MaxNoisy)
           /\ \E k \in 0..Len(file) :
                  /\ rerun = [ch |-> ch, g |-> NewGenerator, after |-> k]
                  /\ \E l \in Noise(ch) : noisy = InsertAt(file, k, l)
    /\ mapping = NotRead
    /\ speed = NewGenerator
    /\ power = NewGenerator
    /\ cg_speed = NewGenerator
    /\ cli = Idle
    /\ table = Idle

\* next() on the generator over the file with the line inserted
NoisyNext ==
    /\ rerun.g.st = "suspended"
    /\ rerun' = [rerun EXCEPT !.g =
                     IF rerun.ch = "speed"
                     THEN SpeedNext(header, noisy, rerun.g)
                     ELSE IF rerun.ch = "power"
                     THEN PowerNext(header, noisy, rerun.g)
                     ELSE CgSpeedNext(header, noisy, rerun.g)]
    /\ UNCHANGED <<header, file, noisy, mapping, speed, power, cg_speed,
                   cli, table>>

NextInsert == FirstNext \/ NoisyNext

SpecInsert == InitInsert /\ [][NextInsert]_vars

----------------------------------------------------------------------------
(* Properties *)

\* an announcement line of ch with interval_duration_raw > 0 (and, for
\* power, event_count > 0)
IsValidAnn(ch, l) ==
    /\ IsAnn(ch, l)
    /\ IF ch = "power"
       THEN ParseInt(l.elapsed_time) > 0 /\ ParseInt(l.event_count) > 0
       ELSE ParseInt(l.timer) > 0

\* the positions of the announcement lines of ch in f
AnnPositions(ch, f) == { i \in 1..Len(f) : IsAnn(ch, f[i]) }

\* the k-th smallest element of a set of numbers
RECURSIVE Kth(_, _)
Kth(S, k) ==
    LET m == CHOOSE x \in S : \A y \in S : x <= y
    IN  IF k = 1 THEN m ELSE Kth(S \ {m}, k - 1)

\* f is a sequence of consecutive intervals of ch: each one valid
\* announcement line followed by one or more broadcast lines of ch
IntervalFile(ch, f) ==
    /\ \A i \in 1..Len(f) : IsValidAnn(ch, f[i]) \/ IsBc(ch, f[i])
    /\ Len(f) > 0 => IsAnn(ch, f[1]) /\ IsBc(ch, f[Len(f)])
    /\ \A i \in 1..Len(f) - 1 : ~(IsAnn(ch, f[i]) /\ IsAnn(ch, f[i + 1]))

\* the position after a of the next announcement line of ch, or one past
\* the end of f
NextAnn(ch, f, a) ==
    LET later == { i \in AnnPositions(ch, f) : i > a }
    IN  IF later = {} THEN Len(f) + 1 ELSE Kth(later, 1)

\* the positions of the broadcast lines of ch between the announcement at
\* a and the next announcement or the end of f
BcOfInterval(ch, f, a) ==
    { i \in (a + 1)..(NextAnn(ch, f, a) - 1) : IsBc(ch, f[i]) }

\* the positions in g.out of the records built from a broadcast line of
\* the interval that starts at a
RecordsOfInterval(ch, f, g, a) ==
    { k \in 1..Len(g.out) : g.out[k].bc \in BcOfInterval(ch, f, a) }

Min(S) == CHOOSE x \in S : \A y \in S : x <= y
Max(S) == CHOOSE x \in S : \A y \in S : x >= y

\* the broadcast lines of ch carry non-decreasing timestamps in file order
NonDecreasingFile(ch, f) ==
    \A i, j \in 1..Len(f) :
        (i < j /\ IsBc(ch, f[i]) /\ IsBc(ch, f[j]))
            => ParseFloat(f[i].timestamp) <= ParseFloat(f[j].timestamp)

\* C1: for a file that is K consecutive intervals of the channel, speed()
\* (resp. power()) emits exactly K records, the k-th built from the k-th
\* announcement.
C1_OneRecordPerInterval ==
    \A ch \in {"speed", "power"} :
        (Gen(ch).st # "suspended" /\ IntervalFile(ch, file)) =>
            /\ Gen(ch).st = "done"
            /\ Len(Gen(ch).out) = Cardinality(AnnPositions(ch, file))
            /\ \A k \in 1..Len(Gen(ch).out) :
                   Gen(ch).out[k].ann = Kth(AnnPositions(ch, file), k)

\* C2: no extractor ends in an error, and no record is emitted without a
\* broadcast line of its own: the records of one extractor are built from
\* pairwise different broadcast lines.
C2_NoRecordWithoutValueLine ==
    \A ch \in Channels :
        /\ Gen(ch).st # "error"
        /\ \A i, j \in 1..Len(Gen(ch).out) :
               i < j => Gen(ch).out[i].bc # Gen(ch).out[j].bc

\* C3: every record pairs its broadcast line with the nearest announcement
\* line of the channel before it: no announcement line lies between the
\* announcement and the broadcast line a record was built from.
C3_NearestAnnouncement ==
    \A ch \in Channels :
        \A k \in 1..Len(Gen(ch).out) :
            LET r == Gen(ch).out[k]
            IN  \A i \in AnnPositions(ch, file) : ~(r.ann < i /\ i < r.bc)

\* C4: for a file that is K consecutive intervals of the CG channel,
\* cg_speed() emits K records, the k-th built from the k-th announcement.
C4_CgNoAnnouncementDropped ==
    (cg_speed.st # "suspended" /\ IntervalFile("cg_speed", file)) =>
        /\ cg_speed.st = "done"
        /\ Len(cg_speed.out) = Cardinality(AnnPositions("cg_speed", file))
        /\ \A k \in 1..Len(cg_speed.out) :
               cg_speed.out[k].ann = Kth(AnnPositions("cg_speed", file), k)

\* C5: once cg_speed() has ended, every interval that starts with a
\* nonzero-duration announcement and holds N >= 1 CG_SPEED lines has exactly
\* one record, with the timestamp and value of the last of these lines.
C5_CgLastValue ==
    cg_speed.st = "done" =>
        \A a \in AnnPositions("cg_speed", file) :
            (/\ ParseInt(file[a].timer) # 0
             /\ BcOfInterval("cg_speed", file, a) # {}) =>
                LET ks == RecordsOfInterval("cg_speed", file, cg_speed, a)
                    last == file[Max(BcOfInterval("cg_speed", file, a))]
                IN  /\ Cardinality(ks) = 1
                    /\ \A k \in ks :
                        /\ cg_speed.out[k].timestamp
                               = FromTimestamp(last.timestamp)
                        /\ cg_speed.out[k].value = ParseFloat(last.speed)

\* the announcement at a starts an interval that speed() (resp. power())
\* does not skip
IsFirstMatchAnn(ch, l) ==
    IF ch = "power" THEN ParseInt(l.event_count) # 0
    ELSE ParseInt(l.timer) # 0

\* C6: once speed() (resp. power()) has ended, every interval that starts
\* with an announcement and holds N >= 1 broadcast lines has exactly one
\* record, with the timestamp and value of the first of these lines.
C6_FirstMatchOneRecord ==
    \A ch \in {"speed", "power"} :
        Gen(ch).st = "done" =>
            \A a \in AnnPositions(ch, file) :
                (/\ IsFirstMatchAnn(ch, file[a])
                 /\ BcOfInterval(ch, file, a) # {}) =>
                    LET ks == RecordsOfInterval(ch, file, Gen(ch), a)
                        first == file[Min(BcOfInterval(ch, file, a))]
                    IN  /\ Cardinality(ks) = 1
                        /\ \A k \in ks :
                            /\ Gen(ch).out[k].timestamp
                                   = FromTimestamp(first.timestamp)
                            /\ Gen(ch).out[k].value
                                   = ParseFloat(IF ch = "power"
                                                THEN first.power
                                                ELSE first.speed)

\* C7: no record of speed() or cg_speed() was built from an announcement
\* line whose timer is 0, and no record of power() from an announcement
\* line whose event_count is 0.
C7_ZeroAnnouncementSkipped ==
    /\ \A ch \in {"speed", "cg_speed"} :
           \A k \in 1..Len(Gen(ch).out) :
               ParseInt(file[Gen(ch).out[k].ann].timer) # 0
    /\ \A k \in 1..Len(power.out) :
           /\ ParseInt(file[power.out[k].ann].event_count) # 0
           /\ power.out[k].event_count # 0

\* the records of s that carry timestamp t, in their order in s
WithTimestamp(s, t) == SelectSeq(s, LAMBDA r : r.timestamp = t)

\* C8: main() prints one row per speed and power record, ascending by
\* timestamp; records with equal timestamps keep the order they have in
\* list(speed) + list(power), so the output is a permutation of that list.
C8_StableSortedOutput ==
    cli.st = "ok" =>
        /\ Len(cli.records) = Len(cli.input)
        /\ \A i \in 1..Len(cli.records) - 1 :
               cli.records[i].timestamp <= cli.records[i + 1].timestamp
        /\ \A i \in 1..Len(cli.input) :
               WithTimestamp(cli.records, cli.input[i].timestamp)
                   = WithTimestamp(cli.input, cli.input[i].timestamp)
        /\ Len(cli.rows) = Len(cli.records)
        /\ \A i \in 1..Len(cli.rows) :
               /\ cli.rows[i].timestamp = Strftime(cli.records[i].timestamp)
               /\ cli.rows[i].sensor = "power"
                     <=> cli.records[i].type = "PowerSensorRecord"

\* main() has sorted a list that was not in order and that holds two
\* different records with the same timestamp
C8_Witness ==
    /\ cli.st = "ok"
    /\ cli.records # cli.input
    /\ \E i, j \in 1..Len(cli.input) :
           /\ i < j
           /\ cli.input[i].timestamp = cli.input[j].timestamp
           /\ cli.input[i] # cli.input[j]

\* the broadcast lines of all channels together carry non-decreasing
\* timestamps in file order
TimeOrderedFile(f) ==
    \A i, j \in 1..Len(f) :
        (/\ i < j
         /\ \E ch \in Channels : IsBc(ch, f[i])
         /\ \E ch \in Channels : IsBc(ch, f[j]))
            => ParseFloat(f[i].timestamp) <= ParseFloat(f[j].timestamp)

\* C9: the rows of the table of to_df() are in ascending timestamp order
\* across the three sensor kinds (stated for log files written in time
\* order, the most favourable case).
C9_TableAscending ==
    (table.st = "ok" /\ TimeOrderedFile(file)) =>
        \A i \in 1..Len(table.rows) - 1 :
            table.rows[i].index <= table.rows[i + 1].index

\* C10: for a file whose broadcast lines of a channel carry non-decreasing
\* timestamps, the extractor of that channel emits its records in the file
\* order of the broadcast lines they were built from, with non-decreasing
\* timestamps.
C10_NonDecreasingTimestamps ==
    \A ch \in Channels :
        (Len(Gen(ch).out) > 1 /\ NonDecreasingFile(ch, file)) =>
            \A k \in 1..Len(Gen(ch).out) - 1 :
                /\ Gen(ch).out[k].bc <= Gen(ch).out[k + 1].bc
                /\ Gen(ch).out[k].timestamp <= Gen(ch).out[k + 1].timestamp

\* an extractor has ended after emitting two records with different
\* timestamps from a file whose broadcast lines are in time order
C10_Witness ==
    \E ch \in Channels :
        /\ NonDecreasingFile(ch, file)
        /\ Gen(ch).st = "done"
        /\ \E k \in 1..Len(Gen(ch).out) - 1 :
               Gen(ch).out[k].timestamp < Gen(ch).out[k + 1].timestamp

HeaderResolves(ch, h, f) ==
    Lookup(ReadSettings(h \o f), IF ch = "power" THEN "power" ELSE "speed",
           ch = "power") = "none"

\* C12: when the header resolves the channel's sensor id and the body holds
\* no announcement line of the channel (an empty body included), the
\* extractor of the channel ends without a record and without an error.
C12_NoAnnouncementNoRecord ==
    \A ch \in Channels :
        (/\ Gen(ch).st # "suspended"
         /\ AnnPositions(ch, file) = {}
         /\ HeaderResolves(ch, header, file)) =>
            /\ Gen(ch).st = "done"
            /\ Gen(ch).err = "none"
            /\ Gen(ch).out = << >>

\* every extractor has ended on a body of two broadcast lines
C12_Witness ==
    /\ Len(file) = 2
    /\ \A i \in 1..Len(file) : \E ch \in Channels : IsBc(ch, file[i])
    /\ \A ch \in Channels :
           /\ HeaderResolves(ch, header, file)
           /\ AnnPositions(ch, file) = {}
           /\ Gen(ch).st = "done"

\* the settings key that the extractor of ch looks up
KeyOf(ch) == IF ch = "power" THEN "power" ELSE "speed"

\* C13: when the settings mapping lacks the key of a channel, the extractor
\* of the channel, once resumed, has ended in a lookup error with no body
\* line read and no record emitted; and main(), which consumes speed() and
\* power(), has then failed without printing a data row.
C13_MissingKeyFailsFirst ==
    LET keys == DOMAIN ReadSettings(header \o file)
    IN  /\ \A ch \in Channels :
               (KeyOf(ch) \notin keys /\ Gen(ch) # NewGenerator) =>
                   /\ Gen(ch).st = "error"
                   /\ Gen(ch).err = "KeyError"
                   /\ Gen(ch).pos = 0
                   /\ Gen(ch).out = << >>
        /\ (cli.st # "idle" /\ {"speed", "power"} \ keys # {}) =>
               /\ cli.st = "error"
               /\ cli.rows = << >>

\* the header has no SPEED line, the body holds a speed announcement and a
\* SPEED line, and speed(), cg_speed() and main() have been run
C13_Witness ==
    /\ "speed" \notin DOMAIN ReadSettings(header \o file)
    /\ "power" \in DOMAIN ReadSettings(header \o file)
    /\ \E i, j \in 1..Len(file) :
           /\ i < j
           /\ IsValidAnn("speed", file[i])
           /\ IsBc("speed", file[j])
    /\ speed.st = "error"
    /\ cg_speed.st = "error"
    /\ cli.st = "error"

\* the first position after p of a line of h that matches the marker, or
\* one past the end of h
FirstAfter(h, p, marker) ==
    LET later == { i \in (p + 1)..Len(h) : h[i].kind = marker.kind }
    IN  IF later = {} THEN Len(h) + 1 ELSE Min(later)

\* the positions of the lines that the settings property captures: the
\* labelled lines between the first 'Time and Date' line and the next '###',
\* and the device lines between the next 'Rider and Device Data' line and
\* the '###' after it
Captured(h) ==
    LET t == FirstAfter(h, 0, TimeMarker)
        e == FirstAfter(h, t, EndMarker)
        r == FirstAfter(h, e, RiderMarker)
        z == FirstAfter(h, r, EndMarker)
    IN  { i \in (t + 1)..(e - 1) : h[i].kind = "H_DATE" }
        \cup { i \in (r + 1)..(z - 1) :
                   h[i].kind \in {"H_DEVICE", "H_SCALAR"} }

\* C14 as stated: the settings property fails exactly when the 'Time and
\* Date' or the 'Rider and Device Data' marker is not in the file.
C14_MissingSectionError ==
    mapping.st # "idle" =>
        (mapping.st = "error"
            <=> ~(HasMarker(header, TimeMarker)
                  /\ HasMarker(header, RiderMarker)))

\* C14, amended: the settings property never fails.  It returns a mapping
\* that holds exactly the keys of the captured lines, each with the value
\* of the last captured line of that label; every other line is skipped.
\* With no 'Time and Date' marker the mapping is empty, with no 'Rider and
\* Device Data' marker after the first section it holds no device key.
C14_SettingsNeverFails ==
    mapping.st # "idle" =>
        LET data == mapping.data
            c == Captured(header)
        IN  /\ mapping.st = "returned"
            /\ DOMAIN data = { Lower(header[i].label) : i \in c }
            /\ \A i \in c :
                   (\A j \in c : header[j].label = header[i].label => j <= i)
                       => /\ data[Lower(header[i].label)].value
                                = header[i].value
                          /\ "param1" \in DOMAIN data[Lower(header[i].label)]
                                <=> header[i].kind = "H_DEVICE"
            /\ ~HasMarker(header, TimeMarker) => DOMAIN data = {}
            /\ ~HasMarker(header, RiderMarker)
                   => DOMAIN data \subseteq {"start date"}

\* the property has returned a mapping for a header that has no 'Rider and
\* Device Data' marker and whose first section holds a line that is skipped
C14_Witness ==
    /\ mapping.st = "returned"
    /\ HasMarker(header, TimeMarker)
    /\ ~HasMarker(header, RiderMarker)
    /\ HasMarker(header, CommentLine)
    /\ "start date" \in DOMAIN mapping.data

\* C15: every record of speed() and cg_speed() carries the timer of its
\* announcement divided by 1024 and rounded to the nearest microsecond
\* (16 * elapsed_time is within 8 of 15625 * timer), and every record of
\* power() carries 500 microseconds per tick of its announcement's
\* elapsed_time field.
C15_ElapsedTime ==
    /\ \A ch \in {"speed", "cg_speed"} :
           \A k \in 1..Len(Gen(ch).out) :
               LET r == Gen(ch).out[k]
                   d == 16 * r.elapsed_time
                            - 15625 * ParseInt(file[r.ann].timer)
               IN  -8 <= d /\ d <= 8
    /\ \A k \in 1..Len(power.out) :
           power.out[k].elapsed_time
               = 500 * ParseInt(file[power.out[k].ann].elapsed_time)

\* speed() has emitted a record for a timer that is not a whole number of
\* microseconds, and one for a timer that lies halfway between two
C15_Witness ==
    /\ \E k \in 1..Len(speed.out) :
           ParseInt(file[speed.out[k].ann].timer) = 1027
    /\ \E k \in 1..Len(speed.out) :
           ParseInt(file[speed.out[k].ann].timer) = 8

\* the text of the duration field of an announcement line of ch
DurationField(ch, l) == IF ch = "power" THEN l.elapsed_time ELSE l.timer

\* C16: no extractor emits a record built from an announcement line whose
\* duration field is zero, and no record has elapsed_time 0.
C16_ZeroDurationDiscarded ==
    \A ch \in Channels :
        \A k \in 1..Len(Gen(ch).out) :
            /\ ParseInt(DurationField(ch, file[Gen(ch).out[k].ann])) # 0
            /\ Gen(ch).out[k].elapsed_time # 0

\* C17: every resumption of an extractor moves its cursor forward by at
\* least one line or ends the extractor, never moves it back, and ends the
\* extractor when the cursor is at the end of the file; the cursor stays
\* within the file and an extractor has emitted no more records than it
\* has read lines.  Hence an extractor ends after at most one resumption
\* per line of the file, plus one.
C17_ForwardOnlyTerminates ==
    [][\A ch \in Channels :
          /\ Gen(ch)'.pos >= Gen(ch).pos
          /\ Gen(ch)'.pos <= Len(file')
          /\ Len(Gen(ch)'.out) <= Gen(ch)'.pos
          /\ Gen(ch)' # Gen(ch) =>
                 \/ Gen(ch)'.pos > Gen(ch).pos
                 \/ Gen(ch)'.st \in {"done", "error"}
          /\ (Gen(ch)' # Gen(ch) /\ Gen(ch).pos = Len(file)) =>
                 Gen(ch)'.st \in {"done", "error"}]_vars

\* an extractor has ended at the end of a five-line file after two records
C17_Witness ==
    \E ch \in Channels :
        /\ Len(file) = 5
        /\ Gen(ch).st = "done"
        /\ Gen(ch).pos = Len(file)
        /\ Len(Gen(ch).out) = 2

\* a record without its history fields
Fields(r) == [x \in DOMAIN r \ {"ann", "bc"} |-> r[x]]

\* the outcome of a generator: how it ended and the records it emitted
Outcome(g) ==
    [st |-> g.st, err |-> g.err,
     out |-> [k \in 1..Len(g.out) |-> Fields(g.out[k])]]

\* C18: a line inserted into the body that matches neither the announcement
\* nor the broadcast pattern of a channel changes nothing: at every moment
\* the records emitted from the file with the line and from the file
\* without it agree as far as both go, and when both extractors have ended
\* they have the same outcome.
C18_NoiseLineIgnored ==
    (rerun.ch \in Channels /\ noisy # << >>) =>
        LET a == Outcome(Gen(rerun.ch))
            b == Outcome(rerun.g)
        IN  /\ \A k \in 1..Len(a.out) :
                   k <= Len(b.out) => a.out[k] = b.out[k]
            /\ (a.st # "suspended" /\ b.st # "suspended") => a = b

\* a line was inserted between an announcement line and the broadcast line
\* of a record, and both extractors have ended after emitting that record
C18_Witness ==
    /\ rerun.ch \in Channels
    /\ noisy # << >>
    /\ rerun.g.st = "done"
    /\ Gen(rerun.ch).st = "done"
    /\ \E k \in 1..Len(Gen(rerun.ch).out) :
           /\ Gen(rerun.ch).out[k].ann <= rerun.after
           /\ rerun.after < Gen(rerun.ch).out[k].bc

\* the extractor of ch consumed alone, to its end
List(ch, h, f) ==
    IF ch = "speed" THEN ListSpeed(h, f, NewGenerator)
    ELSE IF ch = "power" THEN ListPower(h, f, NewGenerator)
    ELSE ListCgSpeed(h, f, NewGenerator)

====
